---- MODULE Spec2Model ----
(***************************************************************************)
(* Model of the Express middleware of logstyx-js-express: the response     *)
(* interceptor (successHandler), the error path (errorHandler,             *)
(* notFoundHandler), the payload builder and the redactor.                 *)
(*                                                                         *)
(* JavaScript values are tagged records: the tag t is what typeof /        *)
(* Array.isArray / null checks of the source look at.                      *)
(***************************************************************************)
EXTENDS Integers, Sequences, FiniteSets, TLC

\* ------------------------------------------------------------------ bounds
MaxTime == 3      \* the clock runs over 1..MaxTime seconds
MaxCalls == 2     \* response-emitting calls a route handler makes per request

\* ------------------------------------------------------- JavaScript values
Undef == [t |-> "undefined"]
Null == [t |-> "null"]
NaN == [t |-> "nan"]
Str(s) == [t |-> "string", v |-> s]
Num(n) == [t |-> "number", v |-> n]
Bool(b) == [t |-> "boolean", v |-> b]
Obj(f) == [t |-> "object", f |-> f]
Arr(s) == [t |-> "array", s |-> s]
\* an object carrying a toObject() method (Mongoose document); plain is what toObject() returns
Doc(plain) == [t |-> "document", plain |-> plain]

EmptyFn == [k \in {} |-> Undef]

\* typeof v === "object" && v !== null (arrays included)
IsObject(v) == v.t \in {"object", "array", "document"}

\* ToBoolean
Truthy(v) ==
    CASE v.t = "undefined" -> FALSE
      [] v.t = "null" -> FALSE
      [] v.t = "nan" -> FALSE
      [] v.t = "boolean" -> v.v
      [] v.t = "number" -> v.v # 0
      [] v.t = "string" -> v.v # ""
      [] OTHER -> TRUE

\* a || b
OrElse(a, b) == IF Truthy(a) THEN a ELSE b

\* o?.k : property read, undefined when o is not an object or has no such key
Get(o, k) == IF o.t = "object" /\ k \in DOMAIN o.f THEN o.f[k] ELSE Undef

\* a - b on numbers; undefined operand gives NaN
Minus(a, b) == IF a.t = "number" /\ b.t = "number" THEN Num(a.v - b.v) ELSE NaN

\* a > n and a >= n for a number n: null converts to 0, undefined and NaN compare false
Greater(a, n) ==
    CASE a.t = "number" -> a.v > n
      [] a.t = "null" -> 0 > n
      [] OTHER -> FALSE
GreaterEq(a, n) ==
    CASE a.t = "number" -> a.v >= n
      [] a.t = "null" -> 0 >= n
      [] OTHER -> FALSE

\* `${v}` for the values that reach a template
Template(v) ==
    CASE v.t = "number" -> ToString(v.v)
      [] v.t = "string" -> v.v
      [] v.t = "null" -> "null"
      [] v.t = "nan" -> "NaN"
      [] OTHER -> "undefined"

\* { ...a, ...b } : own keys of both, b winning
Merge(a, b) == [k \in (DOMAIN a) \cup (DOMAIN b) |-> IF k \in DOMAIN b THEN b[k] ELSE a[k]]

\* ...v inside an object literal: own enumerable keys of an object, nothing otherwise
Spread(v) == IF v.t = "object" THEN v.f ELSE EmptyFn

Range(s) == {s[i] : i \in DOMAIN s}

\* String.prototype.toLowerCase on the key names that occur in the model:
\* every name with an upper-case letter is listed, the others are fixed points
toLowerCase(k) ==
    CASE k = "creditCard" -> "creditcard"
      [] k = "Email" -> "email"
      [] k = "PASSWORD" -> "password"
      [] k = "userAgent" -> "useragent"
      [] k = "requestId" -> "requestid"
      [] k = "currentUser" -> "currentuser"
      [] k = "isAdmin" -> "isadmin"
      [] OTHER -> k

\* Object.entries of an array yields the index as a decimal string
IndexKey(i) == CASE i = 1 -> "0" [] i = 2 -> "1" [] i = 3 -> "2" [] OTHER -> "n"

\* ---------------------------------------------------------------- redactor
REDACTED == Str("[REDACTED]")

\* a redactor whose marker tells a masked container from a masked scalar
RECURSIVE redactObjectKeepingType(_, _)
redactObjectKeepingType(obj, redactFields) ==
    IF ~IsObject(obj) THEN obj
    ELSE IF obj.t = "document" THEN redactObjectKeepingType(obj.plain, redactFields)
    ELSE IF obj.t = "array"
    THEN Arr([i \in DOMAIN obj.s |->
                IF IndexKey(i) \in Range(redactFields)
                THEN IF IsObject(obj.s[i]) THEN Str("[REDACTED object]") ELSE REDACTED
                ELSE IF IsObject(obj.s[i]) THEN redactObjectKeepingType(obj.s[i], redactFields)
                ELSE obj.s[i]])
    ELSE Obj([k \in DOMAIN obj.f |->
                IF toLowerCase(k) \in Range(redactFields)
                THEN IF IsObject(obj.f[k]) THEN Str("[REDACTED object]") ELSE REDACTED
                ELSE IF IsObject(obj.f[k]) THEN redactObjectKeepingType(obj.f[k], redactFields)
                ELSE obj.f[k]])

RECURSIVE redactObject(_, _)
redactObject(obj, redactFields) ==
    IF ~IsObject(obj) THEN obj
    ELSE IF obj.t = "document" THEN redactObject(obj.plain, redactFields)
    ELSE IF obj.t = "array"
    THEN Arr([i \in DOMAIN obj.s |->
                IF IndexKey(i) \in Range(redactFields) THEN REDACTED
                ELSE IF IsObject(obj.s[i]) THEN redactObject(obj.s[i], redactFields)
                ELSE obj.s[i]])
    ELSE Obj([k \in DOMAIN obj.f |->
                IF toLowerCase(k) \in Range(redactFields) THEN REDACTED
                ELSE IF IsObject(obj.f[k]) THEN redactObject(obj.f[k], redactFields)
                ELSE obj.f[k]])

\* ----------------------------------------------------------- configuration
DefaultRedactFields ==
    <<"mobile", "phone", "email", "password", "token", "authorization", "creditCard">>

DefaultLogLevels ==
    [success |-> "SUCCESS", error |-> "ERROR", critical |-> "CRITICAL", warning |-> "WARNING"]

Has(options, k) == k \in DOMAIN options

\* createExpressMiddleware: the config object; option functions are named by strings.
\* The trailing ...options makes every key the caller passes win over the computed value.
createExpressMiddleware(options) ==
    Merge([logstyx |-> IF Has(options, "logstyxInstance") THEN options.logstyxInstance ELSE "console",
           redactFields |-> IF Has(options, "redactFields") THEN options.redactFields
                            ELSE DefaultRedactFields,
           buildRequestPayload |-> IF Has(options, "buildRequestPayload")
                                   THEN options.buildRequestPayload
                                   ELSE "defaultBuildRequestPayload",
           contextHook |-> IF Has(options, "contextHook") THEN options.contextHook ELSE "null",
           trackPerformance |-> IF Has(options, "trackPerformance")
                                THEN options.trackPerformance # FALSE ELSE TRUE,
           slowRequestThreshold |-> IF Has(options, "slowRequestThreshold")
                                       /\ options.slowRequestThreshold # 0
                                    THEN options.slowRequestThreshold ELSE 1000,
           logLevels |-> IF Has(options, "logLevels") THEN options.logLevels
                         ELSE DefaultLogLevels],
          options)

\* entry/index.js: the middleware is always built with the logstyx instance as sink
\* and with the four level names
EntryConfig(options) ==
    createExpressMiddleware(
        Merge(options, [logstyxInstance |-> "logstyx", logLevels |-> DefaultLogLevels]))

\* the argument of a call that passes no config
NoConfig == EmptyFn

\* --------------------------------------------------------- payload builder
\* a lookup that lets the last qualifying source win
findUserLastSource(req) ==
    LET userSources == <<Get(req, "user"), Get(Get(req, "auth"), "user"),
                         Get(Get(req, "session"), "user"), Get(Get(req, "locals"), "user"),
                         Get(Get(req, "context"), "user"), Get(req, "currentUser"),
                         Get(req, "account"), Get(req, "profile")>>
        ok(source) == Truthy(source)
                      /\ (Truthy(Get(source, "id")) \/ Truthy(Get(source, "email"))
                          \/ Truthy(Get(source, "username")))
        hits == {i \in DOMAIN userSources : ok(userSources[i])}
    IN  IF hits = {} THEN Null
        ELSE userSources[CHOOSE i \in hits : \A j \in hits : i >= j]

findUserInRequest(req) ==
    LET userSources == <<Get(req, "user"), Get(Get(req, "auth"), "user"),
                         Get(Get(req, "session"), "user"), Get(Get(req, "locals"), "user"),
                         Get(Get(req, "context"), "user"), Get(req, "currentUser"),
                         Get(req, "account"), Get(req, "profile")>>
        ok(source) == Truthy(source)
                      /\ (Truthy(Get(source, "id")) \/ Truthy(Get(source, "email"))
                          \/ Truthy(Get(source, "username")))
        hits == {i \in DOMAIN userSources : ok(userSources[i])}
    IN  IF hits = {} THEN Null
        ELSE userSources[CHOOSE i \in hits : \A j \in hits : i <= j]

findAdminInRequest(req) ==
    OrElse(OrElse(Get(req, "admin"),
                  IF Truthy(Get(Get(req, "user"), "isAdmin")) THEN Get(req, "user") ELSE Null),
           Get(Get(req, "session"), "admin"))

defaultBuildRequestPayload(req) ==
    Obj([method |-> Get(req, "method"),
         url |-> Get(req, "url"),
         path |-> Get(req, "path"),
         ip |-> Get(req, "ip"),
         userAgent |-> Get(Get(req, "headers"), "user-agent"),
         requestId |-> OrElse(Get(req, "id"), Get(Get(req, "headers"), "x-request-id")),
         user |-> findUserInRequest(req),
         admin |-> findAdminInRequest(req),
         session |-> IF Truthy(Get(req, "session"))
                     THEN Obj([id |-> Get(Get(req, "session"), "id")]) ELSE Null,
         query |-> Get(req, "query"),
         params |-> Get(req, "params")])

\* a caller-supplied buildRequestPayload, as in the README's configuration example
customBuilder(req) ==
    Obj([user |-> Get(req, "currentUser"), tenant |-> Str("acme")])

\* caller-supplied context hooks
tenantHook(req) == Obj([tenant |-> Str("acme"), Email |-> Str("ops@acme.io")])
overrideHook(req) == Obj([message |-> Str("from hook"), path |-> Str("/hooked")])

CallBuilder(name, req) ==
    IF name = "customBuilder" THEN customBuilder(req) ELSE defaultBuildRequestPayload(req)

CallHook(name, req) ==
    IF name = "overrideHook" THEN overrideHook(req) ELSE tenantHook(req)

\* a caller-supplied builder or hook that throws: buildFinalPayload calls both without
\* a try/catch, so the exception leaves it
PayloadThrows(config) ==
    \/ config.buildRequestPayload = "throwingBuilder"
    \/ config.contextHook = "throwingHook"

\* the methods of the console object
ConsoleMethods == {"log", "info", "warn", "error", "debug", "trace"}

\* typeof config.logstyx[level] === "function": the logstyx instance has a method per
\* level name, console has its own methods only
SinkCallable(config, level) == config.logstyx # "console" \/ level \in ConsoleMethods

\* a payload whose hook fields are merged in after the redaction
buildFinalPayloadHookLast(req, config) ==
    LET context == redactObject(CallBuilder(config.buildRequestPayload, req),
                                config.redactFields)
    IN  IF config.contextHook # "null"
        THEN Obj(Merge(Spread(context), Spread(CallHook(config.contextHook, req))))
        ELSE context

buildFinalPayload(req, config) ==
    LET context == CallBuilder(config.buildRequestPayload, req)
        merged == IF config.contextHook # "null"
                  THEN Obj(Merge(Spread(context), Spread(CallHook(config.contextHook, req))))
                  ELSE context
    IN  redactObject(merged, config.redactFields)

\* ------------------------------------------------------ outcome classifier
Mutations == {"POST", "PUT", "PATCH", "DELETE"}

\* config?.trackPerformance, for a config argument that may be missing
TrackPerformanceOf(config) == Has(config, "trackPerformance") /\ config.trackPerformance

\* shouldLogSuccess with the lower status bound off by one
shouldLogSuccessAbove200(res, req, config, dateNow) ==
    LET isSuccessful == res.statusCode > 200 /\ res.statusCode < 300
        isMutation == Get(req, "method") \in {Str(m) : m \in Mutations}
    IN  IF ~isMutation THEN FALSE
        ELSE IF TrackPerformanceOf(config) /\ Truthy(Get(req, "_startTime"))
                /\ Greater(Minus(Num(dateNow), Get(req, "_startTime")),
                           config.slowRequestThreshold)
        THEN FALSE
        ELSE isSuccessful

\* dateNow is the value Date.now() returns during the call
shouldLogSuccess(res, req, config, dateNow) ==
    LET isSuccessful == res.statusCode >= 200 /\ res.statusCode < 300
        isMutation == Get(req, "method") \in {Str(m) : m \in Mutations}
    IN  IF ~isMutation THEN FALSE
        ELSE IF TrackPerformanceOf(config) /\ Truthy(Get(req, "_startTime"))
                /\ Greater(Minus(Num(dateNow), Get(req, "_startTime")),
                           config.slowRequestThreshold)
        THEN FALSE
        ELSE isSuccessful

shouldLogWarning(res, req, config, dateNow) ==
    IF ~TrackPerformanceOf(config) \/ ~Truthy(Get(req, "_startTime")) THEN FALSE
    ELSE LET responseTime == Minus(Num(dateNow), Get(req, "_startTime"))
             isSlow == Greater(responseTime, config.slowRequestThreshold)
             isSuccessful == res.statusCode >= 200 /\ res.statusCode < 300
         IN  isSuccessful /\ isSlow

\* ------------------------------------------------------------- log records
Title(req) == Str(Template(Get(req, "method")) \o " " \o Template(Get(req, "path")))

ResponseTime(req, config, dateNow) ==
    IF config.trackPerformance THEN Minus(Num(dateNow), Get(req, "_startTime")) ELSE Null

\* args[0]
Arg0(args) == IF Len(args) >= 1 THEN args[1] ELSE Undef

\* record fields that carry the first argument of end as well
ResponseFieldsOfAnyCall(req, res, method, args, config, dateNow) ==
    [body |-> redactObject(Get(req, "body"), config.redactFields),
     response |-> redactObject(Arg0(args), config.redactFields),
     responseTime |-> ResponseTime(req, config, dateNow),
     statusCode |-> Num(res.statusCode),
     isSlow |-> Bool(Greater(ResponseTime(req, config, dateNow), config.slowRequestThreshold))]

\* the fields that logSuccess and logWarning write after the context spread
ResponseFields(req, res, method, args, config, dateNow) ==
    [body |-> redactObject(Get(req, "body"), config.redactFields),
     response |-> IF method = "json" \/ method = "send"
                  THEN redactObject(Arg0(args), config.redactFields) ELSE Null,
     responseTime |-> ResponseTime(req, config, dateNow),
     statusCode |-> Num(res.statusCode),
     isSlow |-> Bool(Greater(ResponseTime(req, config, dateNow), config.slowRequestThreshold))]

\* the record logSuccess hands to config.logstyx[config.logLevels.success]
logSuccess(req, res, method, args, config, dateNow) ==
    Merge(Merge([title |-> Title(req), message |-> Str("Request completed successfully")],
                Spread(buildFinalPayload(req, config))),
          ResponseFields(req, res, method, args, config, dateNow))

\* the record logWarning hands to config.logstyx[config.logLevels.warning]
logWarning(req, res, method, args, config, dateNow) ==
    Merge(Merge([title |-> Title(req),
                 message |-> Str("Slow request detected ("
                                 \o Template(ResponseTime(req, config, dateNow)) \o "ms)")],
                Spread(buildFinalPayload(req, config))),
          ResponseFields(req, res, method, args, config, dateNow))

\* err.statusCode || err.status || 500
ResolvedStatus(err) == OrElse(OrElse(Get(err, "statusCode"), Get(err, "status")), Num(500))

\* the level logError picks
ErrorLevel(err, config) ==
    IF GreaterEq(Get(err, "statusCode"), 500)
    THEN config.logLevels.critical ELSE config.logLevels.error

\* the record logError hands to the sink
logError(err, req, config, dateNow) ==
    Merge(Merge([title |-> Title(req), message |-> Get(err, "message")],
                Spread(buildFinalPayload(req, config))),
          [stack |-> Get(err, "stack"),
           errorType |-> Get(Get(err, "constructor"), "name"),
           code |-> Get(err, "code"),
           body |-> redactObject(Get(req, "body"), config.redactFields),
           responseTime |-> ResponseTime(req, config, dateNow),
           statusCode |-> ResolvedStatus(err)])

\* a body that carries the stack in every environment
ErrorBodyWithStack(err, nodeEnv) ==
    Obj([error |-> OrElse(Get(err, "message"), Str("Internal Server Error")),
         stack |-> Get(err, "stack")])

\* the JSON body errorHandler sends to the client
ErrorBody(err, nodeEnv) ==
    Obj(Merge([error |-> OrElse(Get(err, "message"), Str("Internal Server Error"))],
              IF nodeEnv = "development" THEN [stack |-> Get(err, "stack")] ELSE EmptyFn))

\* the error notFoundHandler synthesizes
NotFoundError(req) ==
    Obj([message |-> Str("Route not found: " \o Template(Get(req, "method")) \o " "
                         \o Template(Get(req, "path"))),
         statusCode |-> Num(404),
         code |-> Str("NOT_FOUND"),
         stack |-> Str("Error: Route not found"),
         constructor |-> Obj([name |-> Str("Error")])])

\* ------------------------------------------------------------------ inputs
Reqs == {"r1"}

Methods == {"GET", "POST", "PUT"}

StatusCodes == {200, 299, 300, 404}

\* options a caller passes to the package entry
OptionChoices ==
    { EmptyFn,
      [trackPerformance |-> FALSE],
      [contextHook |-> "overrideHook", buildRequestPayload |-> "customBuilder",
       slowRequestThreshold |-> 500] }

\* parsed request bodies
Bodies ==
    { Obj([name |-> Str("ann"), creditCard |-> Str("4111"),
           login |-> Obj([Email |-> Str("ann@x.io"), password |-> Str("pw")])]) }

\* first arguments of res.json / res.send
Payload == Obj([ok |-> Bool(TRUE), token |-> Str("t0k")])

\* The response-emitting calls route code makes: the wrapped methods entered (Express
\* implements json by send and send by end, called on the response object, so an
\* original operation may re-enter the wrapped ones), the receiver (res, or the method
\* called detached from it), the argument list, and what the framework's own
\* operation returns.
CallShapes ==
    { [methods |-> <<"json", "send", "end">>, recv |-> "res", args |-> <<Payload>>,
       ret |-> "res"],
      [methods |-> <<"send">>, recv |-> "detached", args |-> <<Str("done")>>,
       ret |-> "undefined"],
      [methods |-> <<"end">>, recv |-> "res", args |-> <<>>, ret |-> "res"] }

MkError(fields) ==
    Obj(Merge([message |-> Str("boom"), stack |-> Str("Error: boom"),
               constructor |-> Obj([name |-> Str("Error")])], fields))

\* errors a route hands to next()
Errors ==
    { MkError(EmptyFn),
      MkError([statusCode |-> Num(503)]),
      MkError([statusCode |-> Num(400), code |-> Str("E_INPUT")]),
      MkError([status |-> Num(503)]),
      MkError([statusCode |-> Num(204), message |-> Str("")]) }

NodeEnvs == {"development", "production"}

NewRequest(method, body) ==
    Obj([method |-> Str(method), url |-> Str("/users?x=1"), path |-> Str("/users"),
         ip |-> Str("10.0.0.1"),
         headers |-> Obj([k \in {"user-agent"} |-> Str("curl")]),
         user |-> Obj([id |-> Num(7), email |-> Str("u@x.io")]),
         session |-> Obj([id |-> Str("s1"), user |-> Obj([id |-> Num(8)])]),
         query |-> Obj([x |-> Str("1")]), params |-> Obj(EmptyFn),
         body |-> body])

\* ------------------------------------------------------------------- state
VARIABLES
    config,      \* the config object of the middleware instance
    now,         \* the clock, in seconds
    req,         \* per request: the request object
    res,         \* per request: the response object's statusCode
    logged,      \* per request: the closure variable of successHandler
    pc,          \* per request: position in the pipeline
    calls,       \* per request: response-emitting calls made by route code
    pendingErr,  \* per request: the error handed to next()
    sink,        \* every call made on the sink, in order
    last,        \* per request: the effects of the latest handler invocation
    first,       \* per request: status and clock at its first response-emitting call
    pure,        \* an input of redactObject / findUserInRequest and the results of applying it
    async,       \* the invocations of handlers wrapped by asyncHandler
    walk         \* a call of redactObject on a heap of objects, frame by frame

\* the state of the request pipeline
pipeline == <<config, now, req, res, logged, pc, calls, pendingErr, sink, last, first>>

\* the state of the function-level developments
aux == <<pure, async, walk>>

vars == <<pipeline, aux>>

\* Date.now()
DateNow == now * 1000

\* ----------------------------------------------------- response interceptor
\* the decision taken without consulting the logged flag
AutoLevelIgnoringFlag(ctx, lg) ==
    IF shouldLogSuccess(ctx.res, ctx.req, NoConfig, ctx.dateNow) THEN "success"
    ELSE IF shouldLogWarning(ctx.res, ctx.req, ctx.config, ctx.dateNow) THEN "warning"
    ELSE "none"

\* the decision of the wrapped method (lg is the closure's logged flag)
AutoLevel(ctx, lg) ==
    IF ~lg /\ shouldLogSuccess(ctx.res, ctx.req, NoConfig, ctx.dateNow) THEN "success"
    ELSE IF ~lg /\ shouldLogWarning(ctx.res, ctx.req, ctx.config, ctx.dateNow) THEN "warning"
    ELSE "none"

AutoRecord(ctx, level, call) ==
    IF level = "success"
    THEN logSuccess(ctx.req, ctx.res, call.method, call.args, ctx.config, ctx.dateNow)
    ELSE logWarning(ctx.req, ctx.res, call.method, call.args, ctx.config, ctx.dateNow)

\* the arguments and receiver with which the wrapper invokes originals[method]
Forwarded(call) == [method |-> call.method, recv |-> call.recv, args |-> call.args]

\* a wrapper that drops the original's return value
ReturnedNothing(originalValue) == "undefined"

\* the value the wrapper returns, given what the original returned
Returned(originalValue) == originalValue

\* the element of a one-element set: binds a value that is used more than once
Once(S) == CHOOSE x \in S : TRUE

\* What one invocation of the wrapped method amounts to, given the decision it took
\* (level) and what the call of the original operation did (inner).
WrapperResult(ctx, call, i, lg1, level, inner) ==
    LET enter == <<[e |-> "call", depth |-> i, method |-> call.method,
                    recv |-> call.recv, args |-> call.args]>>
        emit == IF level = "none" THEN <<>>
                ELSE <<[e |-> "sink", level |-> ctx.config.logLevels[level],
                        record |-> AutoRecord(ctx, level, call), ok |-> ctx.sinkOk]>>
        fwd == Forwarded(call)
        orig == <<[e |-> "original", depth |-> i, method |-> fwd.method,
                   recv |-> fwd.recv, args |-> fwd.args]>>
    IN  IF level # "none" /\ PayloadThrows(ctx.config)
        THEN [logged |-> lg1, threw |-> TRUE,
              events |-> enter \o <<[e |-> "throw", depth |-> i, cause |-> "payload"]>>]
        ELSE IF level # "none" /\ ~SinkCallable(ctx.config, ctx.config.logLevels[level])
        THEN [logged |-> lg1, threw |-> TRUE,
              events |-> enter \o <<[e |-> "throw", depth |-> i, cause |-> "TypeError"]>>]
        ELSE IF level # "none" /\ ~ctx.sinkOk
        THEN [logged |-> lg1, threw |-> TRUE,
              events |-> enter \o emit \o <<[e |-> "throw", depth |-> i, cause |-> "sink"]>>]
        ELSE IF inner.threw
        THEN [logged |-> inner.logged, threw |-> TRUE,
              events |-> enter \o emit \o orig \o inner.events
                         \o <<[e |-> "throw", depth |-> i, cause |-> "nested"]>>]
        ELSE [logged |-> inner.logged, threw |-> FALSE,
              events |-> enter \o emit \o orig \o inner.events
                         \o <<[e |-> "return", depth |-> i, original |-> ctx.ret,
                               value |-> Returned(ctx.ret)]>>]

\* One invocation of the wrapped method chain[i]; the original operation it forwards to
\* calls the wrapped chain[i+1] before it returns.  Result: the logged flag, the effects
\* in order, and whether an exception left the wrapper.
RECURSIVE WrappedMethod(_, _, _, _)
WrappedMethod(ctx, chain, i, lg) ==
    Once({ Once({ WrapperResult(ctx, chain[i], i, lg \/ level # "none", level, inner) :
                    inner \in { IF i < Len(chain)
                                THEN WrappedMethod(ctx, chain, i + 1, lg \/ level # "none")
                                ELSE [logged |-> lg \/ level # "none", events |-> <<>>,
                                      threw |-> FALSE] } }) :
             level \in {AutoLevel(ctx, lg)} })

\* the calls of a chain: the outermost as the caller made it, the nested ones as the
\* framework makes them, on the response object with the serialized body
MkChain(methods, recv, args) ==
    [i \in DOMAIN methods |->
        IF i = 1 THEN [method |-> methods[i], recv |-> recv, args |-> args]
        ELSE [method |-> methods[i], recv |-> "res", args |-> <<Str("chunk")>>]]

\* the sink calls among the effects of a handler invocation of request r
SinkCalls(r, events) ==
    LET IsSink(ev) == ev.e = "sink"
        evs == SelectSeq(events, IsSink)
    IN  [i \in DOMAIN evs |-> [req |-> r, level |-> evs[i].level,
                               record |-> evs[i].record, ok |-> evs[i].ok]]

\* no response-emitting call yet
NoCall == [status |-> 0, dateNow |-> 0]

FirstCall(r, rs) ==
    IF first[r] = NoCall THEN [status |-> rs.statusCode, dateNow |-> DateNow] ELSE first[r]

\* wrappers that all see the request the middleware met first
CtxOfFirstRequest(r, rs, ret, sinkOk) ==
    [req |-> req["r1"], res |-> rs, config |-> config, dateNow |-> DateNow,
     ret |-> ret, sinkOk |-> sinkOk]

\* what the wrappers of request r close over, and the clock during the call
Ctx(r, rs, ret, sinkOk) ==
    [req |-> req[r], res |-> rs, config |-> config, dateNow |-> DateNow,
     ret |-> ret, sinkOk |-> sinkOk]

\* ----------------------------------------------------------------- actions
\* the state after construction, for a middleware built with one of the given configs
InitOver(configs, requests, methods) ==
    /\ config \in configs
    /\ now = 1
    /\ req \in [requests -> {NewRequest(m, b) : m \in methods, b \in Bodies}]
    /\ res = [r \in requests |-> [statusCode |-> 200]]
    /\ logged = [r \in requests |-> FALSE]
    /\ pc = [r \in requests |-> "arrived"]
    /\ calls = [r \in requests |-> 0]
    /\ pendingErr = [r \in requests |-> Undef]
    /\ sink = <<>>
    /\ last = [r \in requests |-> [op |-> "none", events |-> <<>>]]
    /\ first = [r \in requests |-> NoCall]

InitWith(configs) == InitOver(configs, Reqs, Methods)

\* nothing is going on in the function-level developments
AuxIdle ==
    /\ pure = [kind |-> "none"]
    /\ async = <<>>
    /\ walk = [status |-> "none"]

Init == InitWith({EntryConfig(o) : o \in OptionChoices}) /\ AuxIdle

\* successHandler(req, res, next): wraps send/json/end, stamps the start time, calls next()
SuccessHandler(r) ==
    /\ pc[r] = "arrived"
    /\ req' = [req EXCEPT ![r] =
                  IF config.trackPerformance
                  THEN Obj(Merge(req[r].f, [_startTime |-> Num(DateNow)]))
                  ELSE req[r]]
    /\ logged' = [logged EXCEPT ![r] = FALSE]
    /\ pc' = [pc EXCEPT ![r] = "routes"]
    /\ last' = [last EXCEPT ![r] = [op |-> "successHandler",
                                    events |-> <<[e |-> "next", arg |-> Undef]>>]]
    /\ UNCHANGED <<config, now, res, calls, pendingErr, sink, first, aux>>

\* route code sets res.statusCode
SetStatus(r, code) ==
    /\ pc[r] = "routes"
    /\ code # res[r].statusCode
    /\ res' = [res EXCEPT ![r].statusCode = code]
    /\ UNCHANGED <<config, now, req, logged, pc, calls, pendingErr, sink, last, first, aux>>

\* route code calls a wrapped res.send / res.json / res.end
Respond(r, shape, sinkOk) ==
    /\ pc[r] = "routes"
    /\ calls[r] < MaxCalls
    /\ \E out \in {WrappedMethod(Ctx(r, res[r], shape.ret, sinkOk),
                                   MkChain(shape.methods, shape.recv, shape.args),
                                   1, logged[r])} :
           /\ logged' = [logged EXCEPT ![r] = out.logged]
           /\ sink' = sink \o SinkCalls(r, out.events)
           /\ last' = [last EXCEPT ![r] = [op |-> "respond", events |-> out.events]]
    /\ calls' = [calls EXCEPT ![r] = @ + 1]
    /\ first' = [first EXCEPT ![r] = FirstCall(r, res[r])]
    /\ UNCHANGED <<config, now, req, res, pc, pendingErr, aux>>

\* route code (or asyncHandler) hands an error to next()
Forward(r, err) ==
    /\ pc[r] = "routes"
    /\ pendingErr' = [pendingErr EXCEPT ![r] = err]
    /\ pc' = [pc EXCEPT ![r] = "error"]
    /\ last' = [last EXCEPT ![r] = [op |-> "route",
                                    events |-> <<[e |-> "next", arg |-> err]>>]]
    /\ UNCHANGED <<config, now, req, res, logged, calls, sink, first, aux>>

\* no route matched: the framework reaches the stage after the routes
NoRoute(r) ==
    /\ pc[r] = "routes"
    /\ calls[r] = 0
    /\ pc' = [pc EXCEPT ![r] = "notFound"]
    /\ UNCHANGED <<config, now, req, res, logged, calls, pendingErr, sink, last, first, aux>>

\* notFoundHandler(req, res, next)
NotFoundHandler(r) ==
    /\ pc[r] = "notFound"
    /\ pendingErr' = [pendingErr EXCEPT ![r] = NotFoundError(req[r])]
    /\ pc' = [pc EXCEPT ![r] = "error"]
    /\ last' = [last EXCEPT ![r] =
                   [op |-> "notFoundHandler",
                    events |-> <<[e |-> "next", arg |-> NotFoundError(req[r])]>>]]
    /\ UNCHANGED <<config, now, req, res, logged, calls, sink, first, aux>>

\* errorHandler(err, req, res, next): res.status(code).json(body) through the wrapped
\* json, then logError, then next(err); an exception ends the handler where it occurs
\* what errorHandler does after the response has been written (out)
ErrorHandlerEvents(err, rq, cfg, dateNow, sinkOkError, out) ==
    LET status == <<[e |-> "status", code |-> ResolvedStatus(err).v]>>
        log == <<[e |-> "sink", level |-> ErrorLevel(err, cfg),
                  record |-> logError(err, rq, cfg, dateNow),
                  ok |-> sinkOkError]>>
    IN  IF out.threw THEN status \o out.events
        ELSE IF PayloadThrows(cfg)
        THEN status \o out.events
             \o <<[e |-> "throw", depth |-> 0, cause |-> "payload"]>>
        ELSE IF ~SinkCallable(cfg, ErrorLevel(err, cfg))
        THEN status \o out.events
             \o <<[e |-> "throw", depth |-> 0, cause |-> "TypeError"]>>
        ELSE IF ~sinkOkError
        THEN status \o out.events \o log
             \o <<[e |-> "throw", depth |-> 0, cause |-> "sink"]>>
        ELSE status \o out.events \o log \o <<[e |-> "next", arg |-> err]>>

ErrorHandler(r, nodeEnv, sinkOkAuto, sinkOkError) ==
    /\ pc[r] = "error"
    /\ LET err == pendingErr[r]
           rs == [res[r] EXCEPT !.statusCode = ResolvedStatus(err).v]
       IN  \E out \in {WrappedMethod(Ctx(r, rs, "res", sinkOkAuto),
                                      MkChain(<<"json", "send", "end">>, "res",
                                              <<ErrorBody(err, nodeEnv)>>),
                                      1, logged[r])} :
           \E events \in {ErrorHandlerEvents(err, req[r], config, DateNow,
                                              sinkOkError, out)} :
               /\ res' = [res EXCEPT ![r] = rs]
               /\ logged' = [logged EXCEPT ![r] = out.logged]
               /\ sink' = sink \o SinkCalls(r, events)
               /\ last' = [last EXCEPT ![r] = [op |-> "errorHandler", events |-> events,
                                               nodeEnv |-> nodeEnv]]
               /\ first' = [first EXCEPT ![r] = FirstCall(r, rs)]
    /\ pc' = [pc EXCEPT ![r] = "downstream"]
    /\ UNCHANGED <<config, now, req, calls, pendingErr, aux>>

\* time passes while a request is in flight
Tick ==
    /\ now < MaxTime
    /\ \E r \in DOMAIN pc : pc[r] \in {"routes", "notFound", "error"}
    /\ now' = now + 1
    /\ UNCHANGED <<config, req, res, logged, pc, calls, pendingErr, sink, last, first, aux>>

Next ==
    \/ \E r \in Reqs : SuccessHandler(r)
    \/ \E r \in Reqs, code \in StatusCodes : SetStatus(r, code)
    \/ \E r \in Reqs, shape \in CallShapes, sinkOk \in BOOLEAN : Respond(r, shape, sinkOk)
    \/ \E r \in Reqs, err \in Errors : Forward(r, err)
    \/ \E r \in Reqs : NoRoute(r)
    \/ \E r \in Reqs : NotFoundHandler(r)
    \/ \E r \in Reqs, nodeEnv \in NodeEnvs, sinkOkAuto \in BOOLEAN, sinkOkError \in BOOLEAN :
          ErrorHandler(r, nodeEnv, sinkOkAuto, sinkOkError)
    \/ Tick

Spec == Init /\ [][Next]_vars

\* The middleware built outside the package entry, without a sink instance, and the
\* middleware built with a builder or a hook that throws.
FaultyConfigs ==
    { createExpressMiddleware(EmptyFn),
      EntryConfig([contextHook |-> "throwingHook"]),
      EntryConfig([buildRequestPayload |-> "throwingBuilder", trackPerformance |-> FALSE]) }

InitFaults == InitWith(FaultyConfigs) /\ AuxIdle

SpecFaults == InitFaults /\ [][Next]_vars

\* ------------------------------------ a failure ahead of successHandler
\* The documented setup mounts express.json() before successHandler: a request whose
\* body does not parse goes from there straight to errorHandler, with the response
\* methods not wrapped and no start time on the request.

\* the error the body parser hands to next()
ParseFailure ==
    MkError([statusCode |-> Num(400), status |-> Num(400),
             message |-> Str("Unexpected token"),
             stack |-> Str("SyntaxError: Unexpected token"),
             constructor |-> Obj([name |-> Str("SyntaxError")])])

\* express.json() fails on request r
FailBeforeSuccessHandler(r) ==
    /\ pc[r] = "arrived"
    /\ req' = [req EXCEPT ![r] = Obj(Merge(req[r].f, [body |-> Obj(EmptyFn)]))]
    /\ pendingErr' = [pendingErr EXCEPT ![r] = ParseFailure]
    /\ pc' = [pc EXCEPT ![r] = "errorUnwrapped"]
    /\ last' = [last EXCEPT ![r] = [op |-> "bodyParser",
                                    events |-> <<[e |-> "next", arg |-> ParseFailure]>>]]
    /\ UNCHANGED <<config, now, res, logged, calls, sink, first, aux>>

\* errorHandler(err, req, res, next) on a response whose json is the framework's own
ErrorHandlerUnwrapped(r, nodeEnv, sinkOkError) ==
    /\ pc[r] = "errorUnwrapped"
    /\ LET err == pendingErr[r]
           rs == [res[r] EXCEPT !.statusCode = ResolvedStatus(err).v]
           out == [logged |-> logged[r], threw |-> FALSE,
                   events |-> <<[e |-> "original", depth |-> 1, method |-> "json",
                                 recv |-> "res", args |-> <<ErrorBody(err, nodeEnv)>>]>>]
       IN  \E events \in {ErrorHandlerEvents(err, req[r], config, DateNow,
                                              sinkOkError, out)} :
               /\ res' = [res EXCEPT ![r] = rs]
               /\ sink' = sink \o SinkCalls(r, events)
               /\ last' = [last EXCEPT ![r] = [op |-> "errorHandler", events |-> events,
                                               nodeEnv |-> nodeEnv]]
    /\ pc' = [pc EXCEPT ![r] = "downstream"]
    /\ UNCHANGED <<config, now, req, logged, calls, pendingErr, first, aux>>

NextEarly ==
    \/ \E r \in Reqs : SuccessHandler(r)
    \/ \E r \in Reqs, code \in StatusCodes : SetStatus(r, code)
    \/ \E r \in Reqs, shape \in CallShapes, sinkOk \in BOOLEAN : Respond(r, shape, sinkOk)
    \/ \E r \in Reqs, err \in Errors : Forward(r, err)
    \/ \E r \in Reqs : NoRoute(r)
    \/ \E r \in Reqs : NotFoundHandler(r)
    \/ \E r \in Reqs, nodeEnv \in NodeEnvs, sinkOkAuto \in BOOLEAN, sinkOkError \in BOOLEAN :
          ErrorHandler(r, nodeEnv, sinkOkAuto, sinkOkError)
    \/ Tick
    \/ \E r \in Reqs : FailBeforeSuccessHandler(r)
    \/ \E r \in Reqs, nodeEnv \in NodeEnvs, sinkOkError \in BOOLEAN :
          ErrorHandlerUnwrapped(r, nodeEnv, sinkOkError)

SpecEarly == Init /\ [][NextEarly]_vars

\* ------------------------------------- requests sharing one middleware
\* Two requests in flight at once on the handlers of one createExpressMiddleware
\* call: every turn of one request may be followed by a turn of the other.

SharedReqs == {"r1", "r2"}

InitShared == InitOver({EntryConfig(EmptyFn)}, SharedReqs, {"GET", "POST"}) /\ AuxIdle

\* the calls made on the response object itself
SharedShapes == {shape \in CallShapes : shape.recv = "res"}

NextShared ==
    \/ \E r \in SharedReqs : SuccessHandler(r)
    \/ \E r \in SharedReqs, code \in {200, 404} : SetStatus(r, code)
    \/ \E r \in SharedReqs, shape \in SharedShapes : Respond(r, shape, TRUE)
    \/ Tick

SpecShared == InitShared /\ [][NextShared]_vars

\* ----------------------------------------- builders and hooks of the caller
\* The pipeline of Spec for middlewares configured with a builder, a hook, or both.
ContextConfigs ==
    { EntryConfig([contextHook |-> "overrideHook"]),
      EntryConfig([buildRequestPayload |-> "customBuilder", contextHook |-> "tenantHook"]),
      EntryConfig([buildRequestPayload |-> "customBuilder", trackPerformance |-> FALSE]) }

InitContext == InitOver(ContextConfigs, Reqs, {"GET", "POST"}) /\ AuxIdle

SpecContext == InitContext /\ [][Next]_vars

\* ------------------------------------------------ the functions on their own
\* redactObject and findUserInRequest applied to inputs drawn from bounded sets.

\* nesting depth of the values handed to redactObject
MaxDepth == 2

Scalars == {Str("v"), Num(0), Null}

GenKeys == {"name", "password", "Email", "creditCard"}

\* the scalars, and the single-entry mappings and arrays nested up to depth d
RECURSIVE Values(_)
Values(d) ==
    IF d = 0 THEN Scalars
    ELSE LET below == Values(d - 1)
         IN  Scalars \cup {Obj([k \in {key} |-> v]) : key \in GenKeys, v \in below}
                     \cup {Arr(<<v>>) : v \in below}

\* two-entry mappings and arrays over the values one level down
Pairs(d) ==
    LET below == Values(d - 1)
    IN  {Obj([name |-> a, creditCard |-> b]) : a \in below, b \in below}
        \cup {Arr(<<a, b>>) : a \in below, b \in below}

FieldLists == {DefaultRedactFields, <<"password", "creditcard">>, <<"0", "email">>}

RedactInputs ==
    {[kind |-> "redact", x |-> x, F |-> F, runs |-> 0, once |-> Undef, twice |-> Undef] :
        x \in Values(MaxDepth) \cup Pairs(MaxDepth), F \in FieldLists}

\* the eight places findUserInRequest looks at, in the order of userSources
Slots == 1..8

\* what a place holds: nothing, a user with an identity field, a user with none,
\* a user whose identity fields are all falsy
SlotKinds(i) ==
    {"absent", "identified", "anonymous"} \cup (IF i \in {1, 3} THEN {"blank"} ELSE {})

\* the user put in place i; the slot number makes the users of different places differ
Candidate(i, kind) ==
    CASE kind = "identified" ->
            (CASE i % 3 = 1 -> Obj([id |-> Num(i)])
               [] i % 3 = 2 -> Obj([email |-> Str("u@x"), slot |-> Num(i)])
               [] OTHER -> Obj([username |-> Str("u"), slot |-> Num(i)]))
      [] kind = "anonymous" -> Obj([name |-> Str("n"), slot |-> Num(i)])
      [] kind = "blank" -> Obj([id |-> Num(0), email |-> Str(""), slot |-> Num(i)])
      [] OTHER -> Undef

Holder(c) == IF c = Undef THEN Undef ELSE Obj([user |-> c])

ProbeRequest(kinds) ==
    LET c(i) == Candidate(i, kinds[i])
        all == [user |-> c(1), auth |-> Holder(c(2)), session |-> Holder(c(3)),
                locals |-> Holder(c(4)), context |-> Holder(c(5)),
                currentUser |-> c(6), account |-> c(7), profile |-> c(8)]
    IN  Obj([k \in {n \in DOMAIN all : all[n] # Undef} |-> all[k]])

ProbeInputs ==
    {[kind |-> "probe", kinds |-> ks, req |-> ProbeRequest(ks), runs |-> 0, user |-> Undef] :
        ks \in {f \in [Slots -> {"absent", "identified", "anonymous", "blank"}] :
                    \A i \in Slots : f[i] \in SlotKinds(i)}}

InitPure ==
    /\ InitWith({EntryConfig(EmptyFn)})
    /\ pure \in RedactInputs \cup ProbeInputs
    /\ async = <<>>
    /\ walk = [status |-> "none"]

\* redactObject(x, F)
Redact ==
    /\ pure.kind = "redact" /\ pure.runs = 0
    /\ pure' = [pure EXCEPT !.runs = 1, !.once = redactObject(pure.x, pure.F)]
    /\ UNCHANGED <<pipeline, async, walk>>

\* redactObject(redactObject(x, F), F)
RedactAgain ==
    /\ pure.kind = "redact" /\ pure.runs = 1
    /\ pure' = [pure EXCEPT !.runs = 2, !.twice = redactObject(pure.once, pure.F)]
    /\ UNCHANGED <<pipeline, async, walk>>

\* findUserInRequest(req)
FindUser ==
    /\ pure.kind = "probe" /\ pure.runs = 0
    /\ pure' = [pure EXCEPT !.runs = 1, !.user = findUserInRequest(pure.req)]
    /\ UNCHANGED <<pipeline, async, walk>>

NextPure == Redact \/ RedactAgain \/ FindUser

SpecPure == InitPure /\ [][NextPure]_vars

\* ------------------------------------------------------------ asyncHandler
\* (fn) => (req, res, next) => { Promise.resolve(fn(req, res, next)).catch(next); }
\* The wrapper calls fn at once; the reaction registered by catch is a job the event
\* loop runs after the promise has settled.

\* the requests routed to a wrapped handler
AsyncReqs == {"q1", "q2"}

\* what fn is: an async function that is still awaiting when it returns its promise,
\* a plain function that returns a value, a plain function that throws, an async
\* function that calls next() itself before it returns its promise
Handlers == {"async", "value", "throws", "passes"}

Reasons == {"boom", "timeout"}

\* the arguments the wrapper receives for request q
ArgsOf(q) == [req |-> q, res |-> <<"res", q>>, next |-> <<"next", q>>]

NotInvoked ==
    [pc |-> "idle", handler |-> "none", fnCalls |-> <<>>, settled |-> "no",
     reason |-> "none", nextByWrapper |-> <<>>, nextByFn |-> 0]

InitAsync ==
    /\ InitWith({EntryConfig(EmptyFn)})
    /\ pure = [kind |-> "none"]
    /\ async = [q \in AsyncReqs |-> NotInvoked]
    /\ walk = [status |-> "none"]

\* a reaction that also runs next when the promise fulfils
ThenReaction(settled, reason) ==
    IF settled = "rejected" THEN <<reason>> ELSE <<"fulfilled">>

\* .catch(next): the calls of next made by the reaction, given how the promise settled
CatchReaction(settled, reason) ==
    IF settled = "rejected" THEN <<reason>> ELSE <<>>

\* the wrapper is called for request q: fn(req, res, next) runs now, and its result
\* goes through Promise.resolve
Invoke(q, h) ==
    /\ async[q].pc = "idle"
    /\ async' = [async EXCEPT ![q] =
                    [@ EXCEPT !.handler = h,
                              !.fnCalls = Append(@, ArgsOf(q)),
                              !.nextByFn = IF h = "passes" THEN 1 ELSE 0,
                              !.settled = IF h = "value" THEN "fulfilled" ELSE "no",
                              !.pc = CASE h = "value" -> "settled"
                                       [] h = "throws" -> "threw"
                                       [] OTHER -> "pending"]]
    /\ UNCHANGED <<pipeline, pure, walk>>

\* the promise returned by fn fulfils
Fulfil(q) ==
    /\ async[q].pc = "pending"
    /\ async' = [async EXCEPT ![q] = [@ EXCEPT !.pc = "settled", !.settled = "fulfilled"]]
    /\ UNCHANGED <<pipeline, pure, walk>>

\* the promise returned by fn rejects with reason e
Reject(q, e) ==
    /\ async[q].pc = "pending"
    /\ async' = [async EXCEPT ![q] =
                    [@ EXCEPT !.pc = "settled", !.settled = "rejected", !.reason = e]]
    /\ UNCHANGED <<pipeline, pure, walk>>

\* the event loop runs the reaction job of the settled promise
Microtask(q) ==
    /\ async[q].pc = "settled"
    /\ async' = [async EXCEPT ![q] =
                    [@ EXCEPT !.pc = "done",
                              !.nextByWrapper =
                                  @ \o CatchReaction(async[q].settled, async[q].reason)]]
    /\ UNCHANGED <<pipeline, pure, walk>>

NextAsync ==
    \/ \E q \in AsyncReqs, h \in Handlers : Invoke(q, h)
    \/ \E q \in AsyncReqs : Fulfil(q)
    \/ \E q \in AsyncReqs, e \in Reasons : Reject(q, e)
    \/ \E q \in AsyncReqs : Microtask(q)

\* the job queue is drained: a reaction job that is ready is run
SpecAsync ==
    InitAsync /\ [][NextAsync]_vars /\ \A q \in AsyncReqs : WF_vars(Microtask(q))

\* ------------------------------------------- redactObject on a heap of objects
\* Objects and arrays have an identity here: a container is a cell of the heap and a
\* value is a scalar or a reference to a cell, so that sharing and cycles exist. One
\* stack frame is one activation of redactObject: the container it reads, the container
\* it builds and the entries of Object.entries(obj) it has not handled yet.

\* the depth of the call stack the engine allows
MaxStack == 3

Ref(a) == [t |-> "ref", a |-> a]

Cell(kind, f) == [kind |-> kind, f |-> f]

\* out = Array.isArray(obj) ? [] : {}
EmptyLike(cell) == Cell(cell.kind, <<>>)

\* the heaps handed to redactObject: cell 1 is an object, cell 2 is an array, and an
\* entry is absent, a string, or a reference to either cell
Addrs == {1, 2}

Entries == {Undef, Str("v")} \cup {Ref(a) : a \in Addrs}

Present(f) == [k \in {n \in DOMAIN f : f[n] # Undef} |-> f[k]]

\* the arrays have no holes: a second item only after a first
Items == {it \in Entries \X Entries : it[1] = Undef => it[2] = Undef}

InputHeaps ==
    {<<Cell("object", Present([name |-> n, password |-> p, child |-> c])),
       Cell("array", Present("0" :> it[1] @@ "1" :> it[2]))>> :
        n \in Entries, p \in Entries, c \in Entries, it \in Items}

KeyOrder == <<"name", "password", "child", "0", "1">>

\* the keys of Object.entries(obj), in order
KeysOf(cell) == SelectSeq(KeyOrder, LAMBDA k : k \in DOMAIN cell.f)

\* redactFields.includes(k.toLowerCase())
Matches(k, redactFields) == toLowerCase(k) \in Range(redactFields)

\* a test that sends no value into the recursion
RecursesNever(v) == FALSE

\* v !== null && typeof v === "object"
Recurses(v) == v.t = "ref"

InitWalk ==
    /\ InitWith({EntryConfig(EmptyFn)})
    /\ pure = [kind |-> "none"]
    /\ async = <<>>
    /\ walk \in {[status |-> "ready", heap |-> h, input |-> h, root |-> a, F |-> F,
                   stack |-> <<>>, result |-> Undef] :
                     h \in InputHeaps, a \in Addrs, F \in FieldLists}

Top == walk.stack[Len(walk.stack)]

\* the activation on top of the stack has an entry [k, v] to handle
AtEntry == walk.status = "running" /\ Top.todo # <<>>

EntryKey == Head(Top.todo)

EntryValue == walk.heap[Top.obj].f[EntryKey]

\* the stack with out[k] = v done in the top activation
Handled == [walk.stack EXCEPT ![Len(walk.stack)].todo = Tail(@)]

\* the heap with cell[a][k] = v
Store(heap, a, k, v) == [heap EXCEPT ![a].f = (k :> v) @@ @]

\* redactObject(x, F) is called on the root container: a new activation with a new out
CallRedact ==
    /\ walk.status = "ready"
    /\ walk' = [walk EXCEPT !.status = "running",
                            !.heap = Append(@, EmptyLike(walk.heap[walk.root])),
                            !.stack = <<[obj |-> walk.root, out |-> Len(walk.heap) + 1,
                                         todo |-> KeysOf(walk.heap[walk.root])]>>]
    /\ UNCHANGED <<pipeline, pure, async>>

\* out[k] = "[REDACTED]"
MaskEntry ==
    /\ AtEntry /\ Matches(EntryKey, walk.F)
    /\ walk' = [walk EXCEPT !.heap = Store(@, Top.out, EntryKey, REDACTED),
                            !.stack = Handled]
    /\ UNCHANGED <<pipeline, pure, async>>

\* out[k] = redactObject(v, redactFields): the nested call starts
Descend ==
    /\ AtEntry /\ ~Matches(EntryKey, walk.F) /\ Recurses(EntryValue)
    /\ Len(walk.stack) < MaxStack
    /\ walk' = [walk EXCEPT !.heap = Append(@, EmptyLike(walk.heap[EntryValue.a])),
                            !.stack = Append(@, [obj |-> EntryValue.a,
                                                 out |-> Len(walk.heap) + 1,
                                                 todo |-> KeysOf(walk.heap[EntryValue.a])])]
    /\ UNCHANGED <<pipeline, pure, async>>

\* the nested call does not fit on the call stack: RangeError, thrown through every
\* activation
Overflow ==
    /\ AtEntry /\ ~Matches(EntryKey, walk.F) /\ Recurses(EntryValue)
    /\ Len(walk.stack) >= MaxStack
    /\ walk' = [walk EXCEPT !.status = "rangeError", !.stack = <<>>]
    /\ UNCHANGED <<pipeline, pure, async>>

\* out[k] = v
CopyEntry ==
    /\ AtEntry /\ ~Matches(EntryKey, walk.F) /\ ~Recurses(EntryValue)
    /\ walk' = [walk EXCEPT !.heap = Store(@, Top.out, EntryKey, EntryValue),
                            !.stack = Handled]
    /\ UNCHANGED <<pipeline, pure, async>>

\* return out: to the caller's out[k], or to the caller of redactObject
ReturnOut ==
    /\ walk.status = "running" /\ Top.todo = <<>>
    /\ LET below == SubSeq(walk.stack, 1, Len(walk.stack) - 1)
       IN  IF below = <<>>
           THEN walk' = [walk EXCEPT !.status = "returned", !.stack = <<>>,
                                    !.result = Ref(Top.out)]
           ELSE LET caller == below[Len(below)]
                IN  walk' = [walk EXCEPT
                        !.heap = Store(@, caller.out, Head(caller.todo), Ref(Top.out)),
                        !.stack = [below EXCEPT ![Len(below)].todo = Tail(@)]]
    /\ UNCHANGED <<pipeline, pure, async>>

\* the cells reachable from cell a
RECURSIVE ReachFrom(_, _, _)
ReachFrom(heap, todo, seen) ==
    IF todo = {} THEN seen
    ELSE LET a == CHOOSE x \in todo : TRUE
             kids == {heap[a].f[k].a : k \in {n \in DOMAIN heap[a].f : heap[a].f[n].t = "ref"}}
         IN  ReachFrom(heap, (todo \cup kids) \ (seen \cup {a}), seen \cup {a})

Reach(heap, a) == ReachFrom(heap, {a}, {})

\* the caller updates the value it got back: result...[k] = "changed"
UpdateOutput(a, k) ==
    /\ walk.status = "returned"
    /\ a \in Reach(walk.heap, walk.result.a)
    /\ k \in DOMAIN walk.heap[a].f
    /\ walk' = [walk EXCEPT !.status = "updated",
                            !.heap = Store(@, a, k, Str("changed"))]
    /\ UNCHANGED <<pipeline, pure, async>>

\* the steps of the call itself
StepWalk == CallRedact \/ MaskEntry \/ Descend \/ Overflow \/ CopyEntry \/ ReturnOut

NextWalk ==
    \/ CallRedact
    \/ MaskEntry
    \/ Descend
    \/ Overflow
    \/ CopyEntry
    \/ ReturnOut
    \/ \E a \in DOMAIN walk.heap, k \in Range(KeyOrder) : UpdateOutput(a, k)

\* a call that has started runs until it returns or throws
SpecWalk == InitWalk /\ [][NextWalk]_vars /\ WF_vars(StepWalk)

\* ------------------------------------------------------------- observations
AutoLevels == {"SUCCESS", "WARNING"}

\* the sink calls of request r at one of the given levels
SinkIndices(r, levels) == {i \in DOMAIN sink : sink[i].req = r /\ sink[i].level \in levels}

Count(r, levels) == Cardinality(SinkIndices(r, levels))

MethodOf(r) == Get(req[r], "method").v

Eligible(r) == MethodOf(r) \in Mutations

Is2xx(code) == code >= 200 /\ code < 300

\* performance tracking is on and successHandler stamped the request
Tracked(r) == config.trackPerformance /\ Get(req[r], "_startTime").t = "number"

\* elapsed milliseconds at the first response-emitting call of a tracked request
FirstElapsed(r) == first[r].dateNow - Get(req[r], "_startTime").v

FirstIsSlow(r) == Tracked(r) /\ FirstElapsed(r) > config.slowRequestThreshold

\* ------------------------------------------------------------------ claims

\* C1: within one request, whatever the sequence of wrapped send/json/end calls
\* (nested ones included) and whatever the status changes between them, at most one
\* automatic SUCCESS or WARNING record is handed to the sink.
C1_AtMostOneAutoLog == \A r \in Reqs : Count(r, AutoLevels) <= 1

\* C1 witness: a request made two separate response-emitting calls, the status differs
\* from the one of its first call, and exactly one automatic record exists.
C1_Witness ==
    \E r \in Reqs : /\ calls[r] >= 2
                    /\ first[r].status # res[r].statusCode
                    /\ Is2xx(res[r].statusCode)
                    /\ Count(r, AutoLevels) = 1

\* C2: with tracking on and a start time recorded, when the first response-emitting
\* call of an eligible-method request happens with a 2xx status and an elapsed time
\* above slowRequestThreshold, the request is logged at WARNING and never at SUCCESS.
C2_SlowIsWarningNotSuccess ==
    \A r \in Reqs :
        (first[r] # NoCall /\ Eligible(r) /\ Is2xx(first[r].status) /\ FirstIsSlow(r))
        => (Count(r, {"WARNING"}) = 1 /\ Count(r, {"SUCCESS"}) = 0)

\* C3: a request with a read-only method never produces an automatic SUCCESS or
\* WARNING record, for every status code and every elapsed time.
C3_ReadOnlyNeverAutoLogged ==
    \A r \in Reqs : ~Eligible(r) => Count(r, AutoLevels) = 0

\* C4: when the first response-emitting call of an eligible-method request happens
\* with a 2xx status and an elapsed time not above slowRequestThreshold, exactly one
\* SUCCESS record and no WARNING record is emitted for the request.
C4_FastIsSuccessOnce ==
    \A r \in Reqs :
        (first[r] # NoCall /\ Eligible(r) /\ Is2xx(first[r].status) /\ ~FirstIsSlow(r))
        => (Count(r, {"SUCCESS"}) = 1 /\ Count(r, {"WARNING"}) = 0)

\* C4 witness: a tracked POST answered 2xx within the threshold, later calls made
\* after the threshold had passed, and the SUCCESS record is there.
C4_Witness ==
    \E r \in Reqs : /\ MethodOf(r) = "POST"
                    /\ Tracked(r) /\ ~FirstIsSlow(r) /\ Is2xx(first[r].status)
                    /\ calls[r] >= 2
                    /\ DateNow - Get(req[r], "_startTime").v > config.slowRequestThreshold
                    /\ Count(r, {"SUCCESS"}) = 1

\* the effects of the latest handler invocation of r, and the positions of one kind
Events(r) == last[r].events

At(r, kind) == {i \in DOMAIN Events(r) : Events(r)[i].e = kind}

AtDepth(r, kind, d) == {i \in At(r, kind) : Events(r)[i].depth = d}

\* every automatic sink call of the latest invocation returned normally
AutoSinkReturned(r) ==
    \A i \in At(r, "sink") : Events(r)[i].level \in AutoLevels => Events(r)[i].ok

\* the wrapped call entered at position i reached the original operation exactly once,
\* with the same method, receiver and arguments, and returned the original's value
ForwardedOnce(r, i) ==
    LET c == Events(r)[i]
    IN  /\ Cardinality(AtDepth(r, "original", c.depth)) = 1
        /\ \A j \in AtDepth(r, "original", c.depth) :
              /\ Events(r)[j].method = c.method
              /\ Events(r)[j].recv = c.recv
              /\ Events(r)[j].args = c.args
        /\ Cardinality(AtDepth(r, "return", c.depth)) = 1
        /\ \A j \in AtDepth(r, "return", c.depth) :
              Events(r)[j].value = Events(r)[j].original

\* the status the claim resolves for an error: statusCode if set, else status, else 500
ClaimedStatus(err) ==
    IF "statusCode" \in DOMAIN err.f THEN err.f.statusCode.v
    ELSE IF "status" \in DOMAIN err.f THEN err.f.status.v
    ELSE 500

\* C5: the record of an error is sent at CRITICAL exactly when the resolved status
\* (statusCode, else status, else 500) is at least 500 and at ERROR otherwise, so the
\* level agrees with the record's statusCode and with the status sent to the client.
C5_LevelFollowsResolvedStatus ==
    \A i \in DOMAIN sink :
        sink[i].level \in {"ERROR", "CRITICAL"}
        => LET code == ClaimedStatus(pendingErr[sink[i].req])
           IN  /\ sink[i].record.statusCode = Num(code)
               /\ res[sink[i].req].statusCode = code
               /\ (sink[i].level = "CRITICAL") <=> (code >= 500)

\* C6: when the sink returns normally, every call of a wrapped send/json/end invokes
\* the original operation exactly once with the same receiver and arguments and
\* returns its value, whether or not a log fired and on first and later calls alike.
C6_WrapperIsTransparent ==
    \A r \in Reqs : AutoSinkReturned(r) => \A i \in At(r, "call") : ForwardedOnce(r, i)

\* C6 witness: the second call of a request, made detached with an argument, fired an
\* automatic log and returned.
C6_Witness ==
    \E r \in Reqs : /\ last[r].op = "respond"
                    /\ calls[r] = 2
                    /\ \E i \in At(r, "sink") : Events(r)[i].ok
                    /\ \E i \in At(r, "call") : /\ Events(r)[i].recv = "detached"
                                                /\ Events(r)[i].args # <<>>
                    /\ At(r, "return") # {}

\* what is found below a mapping key that matches a member of F case-insensitively
RECURSIVE Masked(_, _)
Masked(v, F) ==
    CASE v.t = "object" ->
            \A k \in DOMAIN v.f :
                IF \E f \in Range(F) : toLowerCase(k) = toLowerCase(f)
                THEN v.f[k] = REDACTED
                ELSE Masked(v.f[k], F)
      [] v.t = "array" -> \A i \in DOMAIN v.s : Masked(v.s[i], F)
      [] OTHER -> TRUE

\* C7: every mapping key, at any depth, that matches a member of the redaction list
\* case-insensitively has the value "[REDACTED]" in the output of redactObject; with
\* the default list a key named creditCard is masked.
C7_MatchingKeysAreMasked ==
    \A i \in DOMAIN sink :
        /\ Masked(sink[i].record.body, config.redactFields)
        /\ "response" \in DOMAIN sink[i].record
           => Masked(sink[i].record.response, config.redactFields)

\* C8: a sink call that throws never reaches the request/response cycle: the wrapped
\* call still invokes the original operation and returns its value, and errorHandler
\* still calls next(err).
C8_SinkFaultIsIsolated ==
    \A r \in Reqs :
        /\ \A i \in At(r, "call") : ForwardedOnce(r, i)
        /\ last[r].op = "errorHandler"
           => \E i \in At(r, "next") : Events(r)[i].arg = pendingErr[r]

\* C9: every invocation of errorHandler performs, in this order, exactly one client
\* response, exactly one log emission and exactly one next(err) with the same error.
C9_ErrorHandlerSteps ==
    \A r \in Reqs :
        last[r].op = "errorHandler"
        => LET Step(ev) == \/ ev.e \in {"status", "sink", "next"}
                           \/ ev.e = "original" /\ ev.depth = 1
               steps == SelectSeq(Events(r), Step)
           IN  /\ Len(steps) = 4
               /\ steps[1].e = "status"
               /\ steps[2].e = "original" /\ steps[2].method = "json"
               /\ steps[3].e = "sink"
               /\ steps[4].e = "next" /\ steps[4].arg = pendingErr[r]

\* the request went through notFoundHandler
IsNotFound(r) == Get(pendingErr[r], "code") = Str("NOT_FOUND")

\* C10: a request that reaches notFoundHandler and then errorHandler gets a 404
\* response and exactly one log record, with code NOT_FOUND, statusCode 404, a message
\* embedding method and path, at the ERROR level; notFoundHandler itself writes no
\* response and emits no log, it only calls next with the synthesized error.
C10_NotFoundIsLoggedOnce ==
    \A r \in Reqs :
        /\ (last[r].op = "notFoundHandler")
           => /\ Events(r) = <<[e |-> "next", arg |-> NotFoundError(req[r])]>>
              /\ Count(r, {"SUCCESS", "WARNING", "ERROR", "CRITICAL"}) = 0
        /\ (last[r].op = "errorHandler" /\ IsNotFound(r))
           => /\ res[r].statusCode = 404
              /\ \E i \in At(r, "original") : Events(r)[i].method = "json"
              /\ Count(r, {"SUCCESS", "WARNING", "ERROR", "CRITICAL"}) = 1
              /\ \A i \in SinkIndices(r, {"SUCCESS", "WARNING", "ERROR", "CRITICAL"}) :
                    /\ sink[i].level = "ERROR"
                    /\ sink[i].record.code = Str("NOT_FOUND")
                    /\ sink[i].record.statusCode = Num(404)
                    /\ sink[i].record.message
                         = Str("Route not found: " \o MethodOf(r) \o " /users")

\* C14: the JSON body errorHandler sends carries the error's message (or 'Internal
\* Server Error' when there is none) and carries the stack exactly in the development
\* environment; the record for the sink carries stack, error kind and error code in
\* every environment, and the client body never carries kind or code.
C14_StackOnlyInDevelopment ==
    \A r \in Reqs :
        last[r].op = "errorHandler"
        => LET err == pendingErr[r]
           IN  /\ \A i \in AtDepth(r, "original", 1) :
                     LET body == Events(r)[i].args[1].f
                     IN  /\ body.error = IF Get(err, "message") \in {Undef, Str("")}
                                         THEN Str("Internal Server Error")
                                         ELSE Get(err, "message")
                         /\ ("stack" \in DOMAIN body) <=> (last[r].nodeEnv = "development")
                         /\ "stack" \in DOMAIN body => body.stack = Get(err, "stack")
                         /\ DOMAIN body \subseteq {"error", "stack"}
               /\ \A i \in At(r, "sink") :
                     Events(r)[i].level \in {"ERROR", "CRITICAL"}
                     => /\ Events(r)[i].record.stack = Get(err, "stack")
                        /\ Events(r)[i].record.errorType
                             = Get(Get(err, "constructor"), "name")
                        /\ Events(r)[i].record.code = Get(err, "code")

\* C14 witness: in production an error with a code was answered and logged.
C14_Witness ==
    \E r \in Reqs :
        /\ last[r].op = "errorHandler" /\ last[r].nodeEnv = "production"
        /\ Get(pendingErr[r], "code") = Str("E_INPUT")
        /\ AtDepth(r, "original", 1) # {}
        /\ \E i \in At(r, "sink") : Events(r)[i].level = "ERROR"

\* C19: when the status at the first response-emitting call of a request is outside
\* [200,300), so that this call emits no automatic log, no later call of the request
\* emits one either, whatever the status and elapsed time have become.
C19_DecisionOnFirstCallOnly ==
    \A r \in Reqs :
        (first[r] # NoCall /\ ~Is2xx(first[r].status)) => Count(r, AutoLevels) = 0

\* C20: no request produces both an automatic SUCCESS/WARNING record and an
\* ERROR/CRITICAL record.
C20_OneOutcomePerRequest ==
    \A r \in Reqs : ~(Count(r, AutoLevels) >= 1 /\ Count(r, {"ERROR", "CRITICAL"}) >= 1)

\* C15: a buildRequestPayload function or contextHook that throws does not crash the
\* request: the wrapped response operation still invokes the original operation,
\* errorHandler still calls next(err), and the error is still logged, with best-effort
\* or empty context.
C15_CallbackFaultIsIsolated ==
    \A r \in Reqs :
        PayloadThrows(config)
        => /\ \A i \in At(r, "call") : ForwardedOnce(r, i)
           /\ last[r].op = "errorHandler"
              => /\ \E i \in At(r, "next") : Events(r)[i].arg = pendingErr[r]
                 /\ \E i \in At(r, "sink") : Events(r)[i].level \in {"ERROR", "CRITICAL"}

\* C16: built without a sink instance, the middleware uses the console as sink and
\* every emission works: the SUCCESS or WARNING record of a qualifying request and the
\* ERROR or CRITICAL record of an error are delivered to a callable of the sink.
C16_DefaultSinkWorks ==
    \A r \in Reqs :
        config.logstyx = "console"
        => /\ \A i \in At(r, "throw") : Events(r)[i].cause # "TypeError"
           /\ (first[r] # NoCall /\ Eligible(r) /\ Is2xx(first[r].status))
              => Count(r, AutoLevels) = 1
           /\ last[r].op = "errorHandler"
              => \E i \in At(r, "sink") : Events(r)[i].level \in {"ERROR", "CRITICAL"}

\* C12: redacting an already redacted value changes nothing: for every value x built
\* from scalars, arrays and mappings and every field list F,
\* redactObject(redactObject(x, F), F) = redactObject(x, F).
C12_RedactIsIdempotent ==
    (pure.kind = "redact" /\ pure.runs = 2) => pure.twice = pure.once

\* both passes ran on a nested value in which the first pass masked a container
C12_Witness ==
    /\ pure.kind = "redact" /\ pure.runs = 2
    /\ pure.x.t = "object"
    /\ \E k \in DOMAIN pure.x.f :
          /\ IsObject(pure.x.f[k])
          /\ pure.once.f[k] = REDACTED

\* the places that hold a user with a truthy id, email or username
Qualifying(kinds) == {i \in Slots : kinds[i] = "identified"}

\* C13: findUserInRequest returns the user of the first place, in the order req.user,
\* req.auth.user, req.session.user, req.locals.user, req.context.user, req.currentUser,
\* req.account, req.profile, that holds a user exposing (with a truthy value) one of
\* id, email, username; it returns null when no place does; req.user wins over
\* req.session.user when both qualify.
C13_FirstQualifyingSourceWins ==
    (pure.kind = "probe" /\ pure.runs = 1)
    => LET q == Qualifying(pure.kinds)
       IN  /\ q = {} => pure.user = Null
           /\ q # {} => pure.user = Candidate(CHOOSE i \in q : \A j \in q : i <= j,
                                               pure.kinds[CHOOSE i \in q : \A j \in q : i <= j])
           /\ ({1, 3} \subseteq q) => pure.user = Get(pure.req, "user")

\* req.user and req.session.user both qualify and the lookup has answered
C13_Witness ==
    /\ pure.kind = "probe" /\ pure.runs = 1
    /\ {1, 3} \subseteq Qualifying(pure.kinds)
    /\ pure.kinds[2] = "anonymous"

\* C11: for a handler fn wrapped by asyncHandler: when the promise returned by
\* fn(req, res, next) rejects with reason e, the wrapper eventually has called next
\* exactly once, with e, and it never calls next more than once; when the promise
\* fulfils, the wrapper never calls next; fn is invoked exactly once per request, with
\* the req, res and next the wrapper received.
C11_RejectionReachesNext ==
    /\ [](\A q \in AsyncReqs :
            /\ Len(async[q].nextByWrapper) <= 1
            /\ async[q].settled # "rejected" => async[q].nextByWrapper = <<>>
            /\ async[q].pc # "idle" => async[q].fnCalls = <<ArgsOf(q)>>
            /\ async[q].pc = "idle" => async[q].fnCalls = <<>>)
    /\ \A q \in AsyncReqs :
          (async[q].settled = "rejected") ~> (async[q].nextByWrapper = <<async[q].reason>>)

\* one request's promise rejected and its reason reached next, the other's fulfilled
\* and its reaction job ran
C11_Witness ==
    \E q1, q2 \in AsyncReqs :
        /\ async # <<>>
        /\ async[q1].settled = "rejected" /\ async[q1].pc = "done"
        /\ async[q1].nextByWrapper = <<async[q1].reason>>
        /\ async[q2].settled = "fulfilled" /\ async[q2].pc = "done"

\* C17: redactObject terminates and returns a value for every input, also for an
\* object that refers to itself directly or through a chain of nested objects: a call
\* that has started eventually has returned.
C17_RedactReturnsOnEveryInput ==
    (walk.status = "running") ~> (walk.status = "returned")

\* the cells of the value handed to redactObject
InputCells == DOMAIN walk.input

\* the copy in cell o has the keys of the input cell a, the marker at the matching
\* keys, the input's scalars elsewhere, and copies of the same kind at the references
RECURSIVE Corresponds(_, _)
Corresponds(a, o) ==
    LET x == walk.heap[a]
        y == walk.heap[o]
    IN  /\ y.kind = x.kind
        /\ DOMAIN y.f = DOMAIN x.f
        /\ \A k \in DOMAIN x.f :
              IF Matches(k, walk.F) THEN y.f[k] = REDACTED
              ELSE IF x.f[k].t = "ref"
                   THEN y.f[k].t = "ref" /\ Corresponds(x.f[k].a, y.f[k].a)
                   ELSE y.f[k] = x.f[k]

\* C18: for an array or mapping x, redactObject(x, F) is a fresh copy: it shares no
\* container with x at any depth, it has the keys of x at every depth not below a
\* redacted key and the scalars of x at the keys that are not redacted; an update of
\* the output at any depth leaves x as it was, and the call itself never modifies x.
C18_OutputIsFreshCopy ==
    /\ walk.status \in {"running", "returned", "updated", "rangeError"}
       => \A a \in InputCells : walk.heap[a] = walk.input[a]
    /\ walk.status = "returned"
       => /\ Reach(walk.heap, walk.result.a) \cap InputCells = {}
          /\ Corresponds(walk.root, walk.result.a)

\* the input has a container below a key that is not redacted, the call returned, and
\* the caller then updated the copy of that nested container
C18_Witness ==
    /\ walk.status = "updated"
    /\ \E k \in DOMAIN walk.input[walk.root].f :
          /\ ~Matches(k, walk.F)
          /\ walk.input[walk.root].f[k].t = "ref"
          /\ walk.heap[walk.result.a].f[k].t = "ref"
          /\ \E n \in DOMAIN walk.heap[walk.heap[walk.result.a].f[k].a].f :
                walk.heap[walk.heap[walk.result.a].f[k].a].f[n] = Str("changed")

\* tracking is off, or request r carries no start time
Untimed(r) == ~config.trackPerformance \/ Get(req[r], "_startTime") = Undef

\* C21: when performance tracking is disabled or no start time was recorded for the
\* request, no WARNING record is emitted, the responseTime of every emitted record is
\* null and the isSlow flag of every automatic record is false; with tracking disabled
\* a 2xx response to an eligible method is still logged as SUCCESS; successHandler
\* stamps the request only when tracking is enabled.
C21_UntimedIsNeverSlow ==
    \A r \in Reqs :
        /\ Untimed(r)
           => /\ \A i \in SinkIndices(r, {"SUCCESS", "WARNING", "ERROR", "CRITICAL"}) :
                    /\ sink[i].level # "WARNING"
                    /\ sink[i].record.responseTime = Null
                    /\ sink[i].level \in AutoLevels => sink[i].record.isSlow = Bool(FALSE)
              /\ (first[r] # NoCall /\ Eligible(r) /\ Is2xx(first[r].status))
                 => Count(r, {"SUCCESS"}) = 1
        /\ ~config.trackPerformance => Get(req[r], "_startTime") = Undef

\* C22: under any interleaving of the response-emitting calls of requests that share
\* one middleware, no request touches the flag, start time or originals of another:
\* the flag of a request is set exactly when a record was emitted for that request; a
\* request whose first call qualifies has exactly one automatic record, built from its
\* own request, status and start time; a request that made no call has none; every
\* wrapped call is forwarded once to the original with its own receiver and arguments.
C22_RequestsAreIsolated ==
    \A r \in SharedReqs :
        /\ Count(r, AutoLevels) <= 1
        /\ logged[r] <=> Count(r, AutoLevels) = 1
        /\ calls[r] = 0 => Count(r, AutoLevels) = 0
        /\ (first[r] # NoCall /\ Eligible(r) /\ Is2xx(first[r].status))
           => \E i \in SinkIndices(r, AutoLevels) :
                 /\ sink[i].record.title = Title(req[r])
                 /\ sink[i].record.statusCode = Num(first[r].status)
                 /\ sink[i].record.responseTime = Num(FirstElapsed(r))
        /\ \A i \in At(r, "call") : ForwardedOnce(r, i)

\* two requests of different methods, stamped at different times, answered in turn:
\* the POST has its record, the other went on calling afterwards
C22_Witness ==
    /\ DOMAIN pc = SharedReqs
    /\ \E r, q \in SharedReqs :
          /\ r # q
          /\ MethodOf(r) = "POST" /\ MethodOf(q) = "GET"
          /\ Get(req[r], "_startTime").t = "number" /\ Get(req[q], "_startTime").t = "number"
          /\ Get(req[r], "_startTime") # Get(req[q], "_startTime")
          /\ calls[q] = 1 /\ calls[r] = 2
          /\ first[q].dateNow < first[r].dateNow
          /\ Count(r, AutoLevels) = 1

\* the fields the record builders write after the context spread
FieldsAfterContext(level) ==
    IF level \in AutoLevels
    THEN {"body", "response", "responseTime", "statusCode", "isSlow"}
    ELSE {"stack", "errorType", "code", "body", "responseTime", "statusCode"}

\* the context the claim describes for request r: the configured builder's fields (the
\* default extractor's when none is configured), overwritten by the hook's, redacted
ClaimedContext(r) ==
    LET built == IF config.buildRequestPayload = "customBuilder"
                 THEN customBuilder(req[r]) ELSE defaultBuildRequestPayload(req[r])
        extra == CASE config.contextHook = "overrideHook" -> overrideHook(req[r]).f
                   [] config.contextHook = "tenantHook" -> tenantHook(req[r]).f
                   [] OTHER -> EmptyFn
        merged == [k \in DOMAIN built.f \cup DOMAIN extra |->
                      IF k \in DOMAIN extra THEN extra[k] ELSE built.f[k]]
    IN  redactObject(Obj(merged), config.redactFields).f

\* C23: the request context in every emitted record is
\* redactObject(merge(builder(req), hook(req)), redactFields): the builder is the
\* caller's buildRequestPayload when one is configured, and the default extractor
\* then contributes nothing; the hook's fields overwrite the builder's; the hook's
\* fields are redacted like the builder's.
C23_ContextIsBuiltMergedRedacted ==
    \A i \in DOMAIN sink :
        LET rec == sink[i].record
            ctx == ClaimedContext(sink[i].req)
            after == FieldsAfterContext(sink[i].level)
        IN  /\ DOMAIN rec = {"title", "message"} \cup DOMAIN ctx \cup after
            /\ \A k \in DOMAIN ctx \ after : rec[k] = ctx[k]

\* a record of a middleware with the caller's builder and a hook: the hook's Email is
\* masked and no field of the default extractor is there
C23_Witness ==
    /\ config.buildRequestPayload = "customBuilder" /\ config.contextHook = "tenantHook"
    /\ \E i \in DOMAIN sink :
          /\ sink[i].record.Email = REDACTED
          /\ sink[i].record.tenant = Str("acme")
          /\ "ip" \notin DOMAIN sink[i].record

\* the message the claim fixes for a record of request r at the given level
ClaimedMessage(r, level, rec) ==
    CASE level = "SUCCESS" -> Str("Request completed successfully")
      [] level = "WARNING" ->
            Str("Slow request detected (" \o Template(rec.responseTime) \o "ms)")
      [] OTHER -> Get(pendingErr[r], "message")

\* C24: every emitted record has the title "<METHOD> <PATH>" of its request and the
\* message fixed for its outcome, whatever the builder or the hook return; its body is
\* the redacted request body and its responseTime and statusCode are the core's own.
C24_CoreFieldsAreFixed ==
    \A i \in DOMAIN sink :
        LET rec == sink[i].record
            r == sink[i].req
        IN  /\ rec.title = Title(req[r])
            /\ rec.message = ClaimedMessage(r, sink[i].level, rec)
            /\ rec.body = redactObject(Get(req[r], "body"), config.redactFields)
            /\ IF config.trackPerformance
               THEN /\ rec.responseTime.t = "number"
                    /\ rec.responseTime.v >= 0
                    /\ rec.responseTime.v <= DateNow - Get(req[r], "_startTime").v
               ELSE rec.responseTime = Null
            /\ IF sink[i].level \in AutoLevels
               THEN rec.statusCode.t = "number" /\ Is2xx(rec.statusCode.v)
               ELSE rec.statusCode = ResolvedStatus(pendingErr[r])

\* the response snapshot the claim describes for a call of method with args
ClaimedResponse(method, args) ==
    IF method \in {"json", "send"}
    THEN redactObject(IF args = <<>> THEN Undef ELSE args[1], config.redactFields)
    ELSE Null

\* what a step does to request r: every automatic record it adds was handed to the
\* sink right after the wrapped call was entered and before any original operation
\* ran, with the status the response has during the call and the claimed response
\* snapshot; and a request without any response-emitting call has no automatic record
AutoRecordStep(r) ==
    LET evs == last'[r].events
        added == {i \in DOMAIN sink' : /\ i > Len(sink)
                                        /\ sink'[i].req = r
                                        /\ sink'[i].level \in AutoLevels}
    IN  /\ \A i \in added :
              \E j \in DOMAIN evs :
                  /\ evs[j].e = "sink" /\ evs[j].record = sink'[i].record
                  /\ j > 1 /\ evs[j - 1].e = "call"
                  /\ \A k \in 1..j : evs[k].e # "original"
                  /\ evs[j].record.statusCode = Num(res'[r].statusCode)
                  /\ evs[j].record.response = ClaimedResponse(evs[j - 1].method, evs[j - 1].args)
        /\ (calls'[r] = 0 /\ last'[r].op # "errorHandler")
           => \A i \in DOMAIN sink' : sink'[i].req = r => sink'[i].level \notin AutoLevels

\* C25: in the success path the automatic record is handed to the sink before the
\* original response operation is invoked; its statusCode is res.statusCode at the
\* moment of the logged call; its response is the redacted first argument for json and
\* send and null for end; a request for which no response-emitting operation is called
\* gets no automatic record.
C25_LoggedBeforeSending ==
    [][\A r \in Reqs : AutoRecordStep(r)]_vars

\* res.json(payload) was logged with the token of the payload masked, and the original
\* json ran after the sink call
C25_Witness ==
    \E r \in Reqs :
        /\ last[r].op = "respond"
        /\ \E j \in At(r, "sink") :
              /\ Events(r)[j].level \in AutoLevels
              /\ Events(r)[j].record.response = Obj([ok |-> Bool(TRUE), token |-> REDACTED])
              /\ \E k \in At(r, "original") : k > j /\ Events(r)[k].method = "json"

====
